---- MODULE Spec2Model ----
(***************************************************************************)
(* A model of the lexer of src/src/lexer.rs (struct Lexer and its methods).*)
(*                                                                         *)
(* The source text is a sequence of characters; a character is a one-      *)
(* character string, and U+00E9 (e with an acute accent, two bytes in      *)
(* UTF-8) is written by its code point.  Rust stores the text as UTF-8,    *)
(* counts positions in                                                     *)
(* characters (chars().count(), chars().nth()) and slices it by BYTE       *)
(* offsets (input[start..current]); the model keeps both views: Utf8Len    *)
(* gives the encoded width of a character and Slice works on byte offsets. *)
(*                                                                         *)
(* One action of the model is one iteration of the loop of Lexer::lex:     *)
(* one call of lex_one, with everything it calls, followed by the reset    *)
(* start = current.  A panic ends the scan; the state it leaves is the     *)
(* state the fields had when the panic was raised.  iterations counts the  *)
(* iterations of the loop that have begun.                                 *)
(***************************************************************************)
EXTENDS Integers, Sequences, FiniteSets, TLC

VARIABLES input, output, line, start, current, status, origin, iterations

vars == <<input, output, line, start, current, status, origin, iterations>>

----------------------------------------------------------------------------
(* Characters *)

QUOTE == "\""
NL == "\n"
TAB == "\t"
CR == "\r"
SPACE == " "
EACUTE == "U+00E9"

\* The encoded width of a character in the UTF-8 text (1 for ASCII).
Utf8Len(c) == IF c = EACUTE THEN 2 ELSE 1

AsciiDigits == <<"0", "1", "2", "3", "4", "5", "6", "7", "8", "9">>

IsAsciiDigit(c) == \E i \in 1..Len(AsciiDigits) : AsciiDigits[i] = c

DigitVal(c) == (CHOOSE i \in 1..Len(AsciiDigits) : AsciiDigits[i] = c) - 1

\* char::is_numeric on the characters of the model: the ASCII digits.
IsNumeric(c) == IsAsciiDigit(c)

----------------------------------------------------------------------------
(* Bounds and the source texts of the model *)

MaxLen == 5

Alphabet == {SPACE, NL, TAB, ")", "-", QUOTE, "5", ".", "a", EACUTE}

BoundedSources == UNION {[1..n -> Alphabet] : n \in 0..MaxLen}

----------------------------------------------------------------------------
(* Decimal arithmetic on digit sequences.  A natural number is the         *)
(* sequence of its decimal digits, most significant first, without leading *)
(* zeros (zero is the empty sequence), so that 64-bit and floating-point   *)
(* magnitudes are exact in the model.                                      *)

RECURSIVE StripLeadingZeros(_)
StripLeadingZeros(d) ==
    IF d = <<>> \/ d[1] # 0 THEN d ELSE StripLeadingZeros(Tail(d))

RECURSIVE CountTrailingZeros(_)
CountTrailingZeros(d) ==
    IF d = <<>> \/ d[Len(d)] # 0 THEN 0
    ELSE 1 + CountTrailingZeros(SubSeq(d, 1, Len(d) - 1))

Zeros(n) == [i \in 1..n |-> 0]

\* Lexicographic a < b on digit sequences of the same length.
RECURSIVE LexLess(_, _)
LexLess(a, b) ==
    IF a = <<>> THEN FALSE
    ELSE IF a[1] # b[1] THEN a[1] < b[1]
    ELSE LexLess(Tail(a), Tail(b))

\* a < b as natural numbers.
NatLess(a, b) ==
    \/ Len(a) < Len(b)
    \/ Len(a) = Len(b) /\ LexLess(a, b)

\* a < b as decimal fractions 0.a and 0.b.
FracLess(a, b) ==
    LET n == IF Len(a) > Len(b) THEN Len(a) ELSE Len(b)
    IN  LexLess(a \o Zeros(n - Len(a)), b \o Zeros(n - Len(b)))

\* a + b; the digits are added from the right with a carry.
RECURSIVE AddRev(_, _, _)
AddRev(a, b, carry) ==
    IF a = <<>> /\ b = <<>> THEN (IF carry = 0 THEN <<>> ELSE <<carry>>)
    ELSE LET x == IF a = <<>> THEN 0 ELSE a[Len(a)]
             y == IF b = <<>> THEN 0 ELSE b[Len(b)]
             a1 == IF a = <<>> THEN a ELSE SubSeq(a, 1, Len(a) - 1)
             b1 == IF b = <<>> THEN b ELSE SubSeq(b, 1, Len(b) - 1)
             t == x + y + carry
         IN  Append(AddRev(a1, b1, t \div 10), t % 10)

NatAdd(a, b) == StripLeadingZeros(AddRev(a, b, 0))

\* a - b for a >= b.
RECURSIVE SubRev(_, _, _)
SubRev(a, b, borrow) ==
    IF a = <<>> THEN <<>>
    ELSE LET x == a[Len(a)]
             y == IF b = <<>> THEN 0 ELSE b[Len(b)]
             b1 == IF b = <<>> THEN b ELSE SubSeq(b, 1, Len(b) - 1)
             t == x - y - borrow
         IN  Append(SubRev(SubSeq(a, 1, Len(a) - 1), b1, IF t < 0 THEN 1 ELSE 0),
                    IF t < 0 THEN t + 10 ELSE t)

NatSub(a, b) == StripLeadingZeros(SubRev(a, b, 0))

\* The digits of a small natural number n.
RECURSIVE NatDigits(_)
NatDigits(n) == IF n = 0 THEN <<>> ELSE Append(NatDigits(n \div 10), n % 10)

\* a mod m for a small modulus m (Horner's rule).
RECURSIVE NatMod(_, _)
NatMod(a, m) ==
    IF a = <<>> THEN 0
    ELSE (NatMod(SubSeq(a, 1, Len(a) - 1), m) * 10 + a[Len(a)]) % m

\* The digits of 2^n for n in 53..64, the powers of two between which an
\* f64 holds integers at a spacing of 2^(n - 52).
Pow2Digits(n) ==
    << <<9,0,0,7,1,9,9,2,5,4,7,4,0,9,9,2>>,
       <<1,8,0,1,4,3,9,8,5,0,9,4,8,1,9,8,4>>,
       <<3,6,0,2,8,7,9,7,0,1,8,9,6,3,9,6,8>>,
       <<7,2,0,5,7,5,9,4,0,3,7,9,2,7,9,3,6>>,
       <<1,4,4,1,1,5,1,8,8,0,7,5,8,5,5,8,7,2>>,
       <<2,8,8,2,3,0,3,7,6,1,5,1,7,1,1,7,4,4>>,
       <<5,7,6,4,6,0,7,5,2,3,0,3,4,2,3,4,8,8>>,
       <<1,1,5,2,9,2,1,5,0,4,6,0,6,8,4,6,9,7,6>>,
       <<2,3,0,5,8,4,3,0,0,9,2,1,3,6,9,3,9,5,2>>,
       <<4,6,1,1,6,8,6,0,1,8,4,2,7,3,8,7,9,0,4>>,
       <<9,2,2,3,3,7,2,0,3,6,8,5,4,7,7,5,8,0,8>>,
       <<1,8,4,4,6,7,4,4,0,7,3,7,0,9,5,5,1,6,1,6>> >>[n - 52]

RECURSIVE Pow2(_)
Pow2(n) == IF n = 0 THEN 1 ELSE 2 * Pow2(n - 1)

----------------------------------------------------------------------------
(* Values.  An f64 is a record: kind "fin" with a sign and the decimal     *)
(* digs * 10^exp (digs without leading or trailing zeros, zero is the      *)
(* empty sequence with exp 0), or kind "inf" with a sign, or kind "nan".   *)
(* An i64 is a "fin" value with exp 0.                                     *)

NoValue == [kind |-> "none", neg |-> FALSE, digs |-> <<>>, exp |-> 0]

Inf(neg) == [kind |-> "inf", neg |-> neg, digs |-> <<>>, exp |-> 0]

NaN == [kind |-> "nan", neg |-> FALSE, digs |-> <<>>, exp |-> 0]

Fin(neg, digs, exp) ==
    LET d == StripLeadingZeros(digs)
        k == CountTrailingZeros(d)
    IN  IF d = <<>>
        THEN [kind |-> "fin", neg |-> neg, digs |-> <<>>, exp |-> 0]
        ELSE [kind |-> "fin", neg |-> neg,
              digs |-> SubSeq(d, 1, Len(d) - k), exp |-> exp + k]

\* An i64 of the given sign and magnitude (there is no negative zero).
I64(neg, digs) ==
    LET d == StripLeadingZeros(digs)
    IN  [kind |-> "fin", neg |-> neg /\ d # <<>>, digs |-> d, exp |-> 0]

\* The i64 of a small integer of the model.
I64Of(n) == I64(n < 0, NatDigits(IF n < 0 THEN 0 - n ELSE n))

\* The magnitude of an integral "fin" value as a natural number.
IntDigits(v) == IF v.digs = <<>> THEN <<>> ELSE v.digs \o Zeros(v.exp)

I64MaxDigits == <<9,2,2,3,3,7,2,0,3,6,8,5,4,7,7,5,8,0,7>>

I64MinDigits == <<9,2,2,3,3,7,2,0,3,6,8,5,4,7,7,5,8,0,8>>

\* d rounded to a multiple of q = 2^k, half to even; r is d mod q.
RoundToMultiple(d, q, r) ==
    IF 2 * r > q \/ (2 * r = q /\ NatMod(d, 2 * q) # r)
    THEN NatAdd(NatSub(d, NatDigits(r)), NatDigits(q))
    ELSE NatSub(d, NatDigits(r))

\* The k in 1..11 with 2^(52+k) <= d < 2^(53+k), for d from 2^53 to 2^64.
BitsBeyond53(d) ==
    CHOOSE k \in 1..11 :
        /\ NatLess(d, Pow2Digits(53 + k))
        /\ ~NatLess(d, Pow2Digits(52 + k))

RoundAt(d, q) == RoundToMultiple(d, q, NatMod(d, q))

\* The nearest f64 of a natural number below 2^64 (round half to even): a
\* number below 2^53 is exact, one in [2^(52+k), 2^(53+k)) is rounded to a
\* multiple of 2^k.
RoundNat(d) ==
    IF NatLess(d, Pow2Digits(53)) THEN d
    ELSE RoundAt(d, Pow2(BitsBeyond53(d)))

\* v as f64, of an i64 (line 158).
I64AsF64(v) == Fin(v.neg, RoundNat(v.digs), 0)

\* -value (line 165).
Negate(v) == [v EXCEPT !.neg = IF v.kind = "nan" THEN FALSE ELSE ~v.neg]

\* value.fract() == 0.0 (line 168): fract is value - value.trunc(), which
\* is NaN for an infinity and for NaN.
FractIsZero(v) == v.kind = "fin" /\ (v.digs = <<>> \/ v.exp >= 0)

\* value as i64 (line 169), of a value with FractIsZero: the cast saturates.
Saturate(v, lim) ==
    IF Len(v.digs) + v.exp > Len(lim) THEN I64(v.neg, lim)
    ELSE IF NatLess(lim, IntDigits(v)) THEN I64(v.neg, lim)
    ELSE I64(v.neg, IntDigits(v))

F64AsI64(v) ==
    IF v.digs = <<>> THEN I64(FALSE, <<>>)
    ELSE Saturate(v, IF v.neg THEN I64MinDigits ELSE I64MaxDigits)

----------------------------------------------------------------------------
(* str::parse::<i64> and str::parse::<f64> on a text (lines 157-160)       *)

AllAsciiDigits(t) == \A i \in 1..Len(t) : IsAsciiDigit(t[i])

DigitVals(t) == [i \in 1..Len(t) |-> DigitVal(t[i])]

HasSign(t) == t # <<>> /\ t[1] \in {"+", "-"}

Unsigned(t) == IF HasSign(t) THEN Tail(t) ELSE t

\* The first position of a character of set cs in t, or 0.
FirstIn(t, cs) ==
    IF \E i \in 1..Len(t) : t[i] \in cs
    THEN CHOOSE i \in 1..Len(t) : t[i] \in cs /\ \A j \in 1..(i - 1) : t[j] \notin cs
    ELSE 0

\* i64::from_str: an optional sign, then one or more ASCII digits, and the
\* value within the 64-bit range; anything else is an Err.
ParseI64Digits(neg, d) ==
    IF NatLess(IF neg THEN I64MinDigits ELSE I64MaxDigits, d)
    THEN [ok |-> FALSE, val |-> NoValue]
    ELSE [ok |-> TRUE, val |-> I64(neg, d)]

ParseI64(t) ==
    IF Unsigned(t) = <<>> \/ ~AllAsciiDigits(Unsigned(t))
    THEN [ok |-> FALSE, val |-> NoValue]
    ELSE ParseI64Digits(HasSign(t) /\ t[1] = "-",
                        StripLeadingZeros(DigitVals(Unsigned(t))))

ToAsciiLower(c) ==
    CASE c = "I" -> "i" [] c = "N" -> "n" [] c = "F" -> "f" [] c = "A" -> "a"
      [] c = "T" -> "t" [] c = "Y" -> "y" [] OTHER -> c

\* The largest and the smallest magnitudes of f64 as decimal fractions of a
\* power of ten: a decimal at or above 0.17976931348623158079 * 10^309 rounds
\* to an infinity, one at or below 0.24703282292062327208 * 10^-323 to zero.
F64OverflowFrac == <<1,7,9,7,6,9,3,1,3,4,8,6,2,3,1,5,8,0,7,9>>

F64UnderflowFrac == <<2,4,7,0,3,2,8,2,2,9,2,0,6,2,3,2,7,2,0,8>>

\* The f64 nearest to a non-zero decimal v, whose order of magnitude is ord
\* (v < 10^ord).  An integral magnitude below 10^19 is rounded to 53 bits;
\* a decimal with a fraction is kept as it is written (it has fewer than 16
\* significant digits in the model, so its nearest f64 has a fraction too).
NearestF64(v, ord) ==
    IF ord > 309 \/ (ord = 309 /\ ~FracLess(v.digs, F64OverflowFrac))
    THEN Inf(v.neg)
    ELSE IF ord < 0 - 323 \/ (ord = 0 - 323 /\ ~FracLess(F64UnderflowFrac, v.digs))
    THEN Fin(v.neg, <<>>, 0)
    ELSE IF v.exp >= 0 /\ ord <= 19
    THEN Fin(v.neg, RoundNat(IntDigits(v)), 0)
    ELSE v

NormalToF64(v) == IF v.digs = <<>> THEN v ELSE NearestF64(v, Len(v.digs) + v.exp)

\* The f64 nearest to the decimal digs * 10^exp.
DecimalToF64(neg, digs, exp) == NormalToF64(Fin(neg, digs, exp))

\* The value of a sequence of digits that is short enough for the model.
RECURSIVE SmallNat(_)
SmallNat(d) ==
    IF d = <<>> THEN 0 ELSE SmallNat(SubSeq(d, 1, Len(d) - 1)) * 10 + d[Len(d)]

CappedNat(d) == IF Len(d) > 5 THEN 99999 ELSE SmallNat(d)

\* The value of the digits of an exponent, capped (f64::from_str saturates).
ExponentVal(t) == CappedNat(StripLeadingZeros(DigitVals(t)))

\* The exponent part: empty (no exponent), or an optional sign and digits.
ExponentOk(hasExp, expt) ==
    ~hasExp \/ (Unsigned(expt) # <<>> /\ AllAsciiDigits(Unsigned(expt)))

Exponent(hasExp, expt) ==
    IF ~hasExp THEN 0
    ELSE IF HasSign(expt) /\ expt[1] = "-" THEN 0 - ExponentVal(Unsigned(expt))
    ELSE ExponentVal(Unsigned(expt))

\* The digits before and after the '.', and the exponent part.
ParseParts(neg, ip, fp, hasExp, expt) ==
    IF /\ AllAsciiDigits(ip) /\ AllAsciiDigits(fp) /\ Len(ip) + Len(fp) >= 1
       /\ ExponentOk(hasExp, expt)
    THEN [ok |-> TRUE,
          val |-> DecimalToF64(neg, DigitVals(ip \o fp),
                               Exponent(hasExp, expt) - Len(fp))]
    ELSE [ok |-> FALSE, val |-> NoValue]

ParseMantissa(neg, mant, dot, hasExp, expt) ==
    ParseParts(neg,
               IF dot = 0 THEN mant ELSE SubSeq(mant, 1, dot - 1),
               IF dot = 0 THEN <<>> ELSE SubSeq(mant, dot + 1, Len(mant)),
               hasExp, expt)

ParseDecimal(neg, body, ePos) ==
    IF ePos = 0
    THEN ParseMantissa(neg, body, FirstIn(body, {"."}), FALSE, <<>>)
    ELSE ParseMantissa(neg, SubSeq(body, 1, ePos - 1),
                       FirstIn(SubSeq(body, 1, ePos - 1), {"."}),
                       TRUE, SubSeq(body, ePos + 1, Len(body)))

ParseUnsignedF64(neg, body, low) ==
    IF low = <<"i", "n", "f">> \/ low = <<"i", "n", "f", "i", "n", "i", "t", "y">>
    THEN [ok |-> TRUE, val |-> Inf(neg)]
    ELSE IF low = <<"n", "a", "n">>
    THEN [ok |-> TRUE, val |-> NaN]
    ELSE ParseDecimal(neg, body, FirstIn(body, {"e", "E"}))

\* f64::from_str: an optional sign, then "inf", "infinity" or "nan" in any
\* case, or digits with an optional '.' (at least one digit in all) and an
\* optional exponent e/E, optional sign, one or more digits.
ParseF64(t) ==
    ParseUnsignedF64(HasSign(t) /\ t[1] = "-", Unsigned(t),
                     [i \in 1..Len(Unsigned(t)) |-> ToAsciiLower(Unsigned(t)[i])])

----------------------------------------------------------------------------
(* Tokens (enum LType, struct Token) *)

Tok(type) == [type |-> type, text |-> <<>>, num |-> NoValue, fn |-> ""]

LParen == Tok("LParen")
RParen == Tok("RParen")
LBracket == Tok("LBracket")
RBracket == Tok("RBracket")
Times == Tok("Times")
Plus == Tok("Plus")
Minus == Tok("Minus")
Div == Tok("Div")
Modulo == Tok("Modulo")
Defun == Tok("Defun")
Vec == Tok("Vec")
Tup == Tok("Tup")
While == Tok("While")
If == Tok("If")
Else == Tok("Else")
Let == Tok("Let")

Ident(text) == [Tok("Ident") EXCEPT !.text = text]

Str(text) == [Tok("Str") EXCEPT !.text = text]

Integer(v) == [Tok("Integer") EXCEPT !.num = v]

Real(v) == [Tok("Real") EXCEPT !.num = v]

Builtin(fn) == [Tok("Builtin") EXCEPT !.fn = fn]

----------------------------------------------------------------------------
(* The ways a scan ends.  A panic is named by its message. *)

Lexing == "lexing"
Returned == "returned"
UnlimitedString == "Unlimited string."
ExpectedDecimal == "Expected a decimal, but nothing found."
ParseFloatError == "called Result::unwrap() on an Err value: ParseFloatError"
NotCharBoundary == "byte index is not a char boundary"
\* self.start - 1 with start = 0: the subtraction overflows (a panic when
\* overflow checks are on), and without the checks chars().nth(usize::MAX)
\* is None and unwrap panics; the scan ends in a panic there in both builds.
NoCharBeforeStart == "attempt to subtract with overflow"

\* peek: self.input.chars().nth(self.current).expect("Hmm.")
PeekPastEnd == "Hmm."

\* advance: self.input.chars().nth(self.current - 1).unwrap()
AdvancePastEnd == "called Option::unwrap() on a None value"

Panics == {UnlimitedString, ExpectedDecimal, ParseFloatError, NotCharBoundary,
           NoCharBeforeStart, PeekPastEnd, AdvancePastEnd}

----------------------------------------------------------------------------
(* The text: character positions and byte offsets *)

\* input.chars().count()
CharCount == Len(input)

\* Option::None of chars().nth(i): there is no character at position i.
None == "None"

\* input.chars().nth(i)
NthChar(i) == IF i >= 0 /\ i < CharCount THEN input[i + 1] ELSE None

\* The byte offset of character position i of the text.
RECURSIVE ByteOffset(_)
ByteOffset(i) == IF i = 0 THEN 0 ELSE ByteOffset(i - 1) + Utf8Len(input[i])

IsCharBoundary(b) == \E i \in 0..CharCount : ByteOffset(i) = b

CharAt(b) == CHOOSE i \in 0..CharCount : ByteOffset(i) = b

\* input[from..to] of str: the offsets are byte offsets, and the slice
\* panics unless both lie on character boundaries.
Slice(from, to) ==
    IF IsCharBoundary(from) /\ IsCharBoundary(to)
    THEN [ok |-> TRUE, text |-> SubSeq(input, CharAt(from) + 1, CharAt(to))]
    ELSE [ok |-> FALSE, text |-> <<>>]

----------------------------------------------------------------------------
(* The lexer (struct Lexer).  The methods are operators on the record of   *)
(* the fields; origin is a history of output: origin[i] is the value of    *)
(* start when output[i] was pushed.                                        *)

Self ==
    [output |-> output, origin |-> origin, line |-> line,
     start |-> start, current |-> current, status |-> status]

\* Lexer::new (lines 63-71)
New ==
    [output |-> <<>>, origin |-> <<>>, line |-> 1,
     start |-> 0, current |-> 0, status |-> Lexing]

\* is_eof with > for >=: the position just past the last character does
\* not count as the end.
is_eofOffByOne(lx) == lx.current > CharCount

is_eof(lx) == lx.current >= CharCount

\* The character peek returns; peek panics where there is none.
peek(lx) == NthChar(lx.current)

PeekFails(lx) == peek(lx) = None

\* advance moves the cursor; the character it returns is peek of the state
\* before, and advance panics, the cursor moved, where there is none.
advance(lx) == [lx EXCEPT !.current = @ + 1]

AdvanceFails(lx) == NthChar(lx.current) = None

add_token(lx, ltype) ==
    [lx EXCEPT !.output = Append(@, ltype), !.origin = Append(@, lx.start)]

\* pop as Vec::clear: every token goes.
popAll(lx) == [lx EXCEPT !.output = <<>>, !.origin = <<>>]

\* Vec::pop: nothing happens on an empty vector.
pop(lx) ==
    IF lx.output = <<>> THEN lx
    ELSE [lx EXCEPT !.output = SubSeq(@, 1, Len(@) - 1),
                    !.origin = SubSeq(@, 1, Len(@) - 1)]

panic(lx, message) == [lx EXCEPT !.status = message]

\* StringLoop without the count of the newlines.
RECURSIVE StringLoopNoLines(_)
StringLoopNoLines(lx) ==
    IF is_eof(lx) THEN lx
    ELSE IF PeekFails(lx) THEN panic(lx, PeekPastEnd)
    ELSE IF peek(lx) = QUOTE THEN lx
    ELSE StringLoopNoLines(advance(lx))

\* The loop of string() (lines 129-136).
RECURSIVE StringLoop(_)
StringLoop(lx) ==
    IF is_eof(lx) THEN lx
    ELSE IF PeekFails(lx) THEN panic(lx, PeekPastEnd)
    ELSE IF peek(lx) = QUOTE THEN lx
    ELSE StringLoop(advance(IF peek(lx) = NL
                            THEN [lx EXCEPT !.line = @ + 1] ELSE lx))

\* Lines 141-143.
StringEmit(l1, str) ==
    IF ~str.ok THEN panic(l1, NotCharBoundary)
    ELSE add_token([l1 EXCEPT !.current = @ + 1], Str(str.text))

\* StringEnd with the end of input tested one position too early: a closing
\* quote that is the last character counts as missing.
StringEndStrict(l1) ==
    IF l1.current + 1 >= CharCount THEN panic(l1, UnlimitedString)
    ELSE StringEmit(l1, Slice(l1.start, l1.current))

\* Lines 137-143, after the loop.
StringEnd(l1) ==
    IF l1.status \in Panics THEN l1
    ELSE IF is_eof(l1) THEN panic(l1, UnlimitedString)
    ELSE StringEmit(l1, Slice(l1.start, l1.current))

string(lx) == StringEnd(StringLoop(lx))

\* while !self.is_eof() && !stop.contains(&self.peek()) { self.advance(); }
RECURSIVE ScanUntil(_, _)
ScanUntil(lx, stop) ==
    IF is_eof(lx) THEN lx
    ELSE IF PeekFails(lx) THEN panic(lx, PeekPastEnd)
    ELSE IF peek(lx) \in stop THEN lx
    ELSE ScanUntil(advance(lx), stop)

\* NumberStop with the characters that cannot continue a number added.
NumberStopWide == {")", NL, SPACE, "(", "-", "+", "<", QUOTE}

NumberStop == {")", NL, SPACE}

\* The value of a captured number text (lines 157-160); ok is FALSE where
\* the unwrap of the f64 parse panics.
NumberValueOr(asInt, num) ==
    IF asInt.ok THEN [ok |-> TRUE, val |-> I64AsF64(asInt.val)]
    ELSE ParseF64(num)

NumberValue(num) == NumberValueOr(ParseI64(num), num)

\* IsNegative that also takes a ')' before the lexeme for a sign.
IsNegativeOrParen(lx) == NthChar(lx.start - 1) \in {"-", ")"}

\* The test of line 163, for start > 0.
IsNegative(lx) == NthChar(lx.start - 1) = "-"

\* The token of lines 168-172.
NumberToken(value) ==
    IF FractIsZero(value) THEN Integer(F64AsI64(value)) ELSE Real(value)

\* EmitNumber with the retraction left out: the Minus stays in the output.
EmitNumberKeepMinus(lx, value) ==
    IF IsNegative(lx)
    THEN add_token(lx, NumberToken(Negate(value)))
    ELSE add_token(lx, NumberToken(value))

\* Lines 162-172: the retraction of the Minus and the emission.
EmitNumber(lx, value) ==
    IF IsNegative(lx)
    THEN add_token(pop(lx), NumberToken(Negate(value)))
    ELSE add_token(lx, NumberToken(value))

\* Lines 157-172, on the parsed value.
NumberParsed(l1, value) ==
    IF ~value.ok THEN panic(l1, ParseFloatError)
    ELSE IF l1.start = 0 THEN panic(l1, NoCharBeforeStart)
    ELSE EmitNumber(l1, value.val)

\* NumberCaptured without the test of the trailing '.'.
NumberCapturedNoDotCheck(l1, num) ==
    IF ~num.ok THEN panic(l1, NotCharBoundary)
    ELSE NumberParsed(l1, NumberValue(num.text))

\* NumberCaptured with the Minus retracted before the text is validated.
NumberCapturedRetractFirst(l1, num) ==
    IF ~num.ok THEN panic(l1, NotCharBoundary)
    ELSE IF num.text[Len(num.text)] = "."
    THEN panic(IF l1.start > 0 /\ IsNegative(l1) THEN pop(l1) ELSE l1, ExpectedDecimal)
    ELSE NumberParsed(l1, NumberValue(num.text))

\* Lines 151-172, on the captured text.
NumberCaptured(l1, num) ==
    IF ~num.ok THEN panic(l1, NotCharBoundary)
    ELSE IF num.text[Len(num.text)] = "." THEN panic(l1, ExpectedDecimal)
    ELSE NumberParsed(l1, NumberValue(num.text))

\* Lines 151-172, after the loop.
NumberEnd(l1) ==
    IF l1.status \in Panics THEN l1
    ELSE NumberCaptured(l1, Slice(l1.start, l1.current))

number(lx) == NumberEnd(ScanUntil(lx, NumberStop))

IdentifierStop == {"(", ")", NL, SPACE, QUOTE}

\* Matches as a test of the beginning of the text only.
MatchesPrefix(ident, word) ==
    Len(ident) >= Len(word) /\ SubSeq(ident, 1, Len(word)) = word

\* A string pattern of the match of identifier(): the whole text, exactly.
Matches(ident, word) == ident = word

\* The match of identifier() on the captured text (lines 180-200).
Classify(ident) ==
    CASE Matches(ident, <<"d", "e", "f", "u", "n">>) -> Defun
      [] Matches(ident, <<"v", "e", "c">>) -> Vec
      [] Matches(ident, <<"t", "u", "p">>) -> Tup
      [] Matches(ident, <<"i", "f">>) -> If
      [] Matches(ident, <<"e", "l", "s", "e">>) -> Else
      [] Matches(ident, <<"w", "h", "i", "l", "e">>) -> While
      [] Matches(ident, <<"l", "e", "t">>) -> Let
      [] Matches(ident, <<"p", "u", "t">>) -> Builtin("Put")
      [] Matches(ident, <<"g", "e", "t">>) -> Builtin("Get")
      [] Matches(ident, <<"t", "y", "p", "e">>) -> Builtin("Type")
      [] Matches(ident, <<"l", "e", "n">>) -> Builtin("Len")
      [] Matches(ident, <<"p", "a", "n", "i", "c">>) -> Builtin("Panic")
      [] Matches(ident, <<"p", "u", "s", "h">>) -> Builtin("Push")
      [] Matches(ident, <<"p", "o", "p">>) -> Builtin("Pop")
      [] OTHER -> Ident(ident)

\* Lines 178-200, on the captured text.
IdentifierCaptured(l1, ident) ==
    IF ~ident.ok THEN panic(l1, NotCharBoundary)
    ELSE add_token(l1, Classify(ident.text))

\* Lines 178-200, after the loop.
IdentifierEnd(l1) ==
    IF l1.status \in Panics THEN l1
    ELSE IdentifierCaptured(l1, Slice(l1.start, l1.current))

identifier(lx) == IdentifierEnd(ScanUntil(lx, IdentifierStop))

\* The token of a character that is a lexeme by itself (lines 102-114).
OperatorChars == {">", "<", "(", ")", "-", "+", "*", "/", "%"}

\* OperatorToken with the two angle brackets exchanged.
OperatorTokenSwapped(cc) ==
    CASE cc = ">" -> LBracket [] cc = "<" -> RBracket
      [] cc = "(" -> LParen [] cc = ")" -> RParen
      [] cc = "-" -> Minus [] cc = "+" -> Plus
      [] cc = "*" -> Times [] cc = "/" -> Div
      [] cc = "%" -> Modulo

OperatorToken(cc) ==
    CASE cc = ">" -> RBracket [] cc = "<" -> LBracket
      [] cc = "(" -> LParen [] cc = ")" -> RParen
      [] cc = "-" -> Minus [] cc = "+" -> Plus
      [] cc = "*" -> Times [] cc = "/" -> Div
      [] cc = "%" -> Modulo

\* The match of lex_one on the character cc that advance returned; l1 is
\* the lexer after advance.
Dispatch(cc, l1) ==
    IF cc = SPACE THEN l1
    ELSE IF cc \in OperatorChars THEN add_token(l1, OperatorToken(cc))
    ELSE IF cc = QUOTE THEN string([l1 EXCEPT !.start = @ + 1])
    ELSE IF cc = NL THEN [l1 EXCEPT !.line = @ + 1]
    ELSE IF IsNumeric(cc) THEN number(l1)
    ELSE identifier(l1)

\* lex_one without its call of advance: the character is read and the
\* cursor stays.
lex_oneNoAdvance(lx) == Dispatch(peek(lx), lx)

\* let cc = self.advance(); match cc { ... } (lines 98-121)
lex_one(lx) ==
    IF AdvanceFails(lx) THEN panic(advance(lx), AdvancePastEnd)
    ELSE Dispatch(peek(lx), advance(lx))

\* ResetStart with the assignment left out.
ResetStartNever(l1) == l1

\* self.start = self.current (line 206); a panic of lex_one ends the scan
\* before it.
ResetStart(l1) ==
    IF l1.status \in Panics THEN l1 ELSE [l1 EXCEPT !.start = l1.current]

\* One iteration of the loop of lex() (lines 205-206).
LexIteration(lx) == ResetStart(lex_one(lx))

----------------------------------------------------------------------------
(* The state machine *)

\* Source texts of the model beyond the bounded ones: the texts the
\* specification of the lexer names, and texts that reach every keyword,
\* builtin and operator.
Samples ==
    { <<"(", "+", SPACE, "1", SPACE, "2", ")">>,
      <<"3", SPACE, "-", SPACE, "5">>,
      <<"-", "5">>,
      <<"-", "-", "5">>,
      <<QUOTE, "h", "e", "l", "l", "o", QUOTE>>,
      <<"d", "e", "f", "u", "n">>,
      <<"v", "e", "c">>,
      <<"t", "u", "p">>,
      <<"i", "f">>,
      <<"e", "l", "s", "e">>,
      <<"w", "h", "i", "l", "e">>,
      <<"l", "e", "t">>,
      <<"p", "u", "t">>,
      <<"g", "e", "t">>,
      <<"t", "y", "p", "e">>,
      <<"l", "e", "n">>,
      <<"p", "a", "n", "i", "c">>,
      <<"p", "u", "s", "h">>,
      <<"p", "o", "p">>,
      <<"D", "e", "f", "u", "n">>,
      <<"d", "e", "f", "u", "n", "x">>,
      <<"f", "o", "o">>,
      <<"(", ")", "<", ">", "+", "-", "*", "/", "%">>,
      <<"(", "-", SPACE, "1", ".", "5", ")">>,
      <<"(", "5", ")">>,
      <<SPACE, "1", "e", "2">>,
      <<"1", ".", "5", ".">>,
      <<"3", ".">>,
      <<"-", "3", ".">>,
      <<"a", CR, NL>>,
      <<"1", "2", "3", "(">>,
      <<"5", "-", "3">>,
      <<"a", "+", "b">>,
      <<"x", ">", "y">>,
      <<SPACE, "9", "0", "0", "7", "1", "9", "9", "2", "5", "4", "7", "4",
        "0", "9", "9", "3">>,
      <<"-", "9", "0", "0", "7", "1", "9", "9", "2", "5", "4", "7", "4",
        "0", "9", "9", "3">>,
      <<SPACE, "9", "2", "2", "3", "3", "7", "2", "0", "3", "6", "8", "5",
        "4", "7", "7", "5", "8", "0", "7">> }

Sources == BoundedSources \cup Samples

Init ==
    /\ input \in Sources
    /\ output = New.output
    /\ origin = New.origin
    /\ line = New.line
    /\ start = New.start
    /\ current = New.current
    /\ status = New.status
    /\ iterations = 0

\* The fields after one more iteration of the loop of lex().
Iteration ==
    \E lx \in {LexIteration(Self)} :
        /\ output' = lx.output
        /\ origin' = lx.origin
        /\ line' = lx.line
        /\ start' = lx.start
        /\ current' = lx.current
        /\ status' = lx.status
        /\ iterations' = iterations + 1
        /\ UNCHANGED input

\* The loop of lex() is entered (line 204).
InLoop == status = Lexing /\ ~is_eof(Self)

LexSpace ==
    /\ InLoop
    /\ peek(Self) = SPACE
    /\ Iteration

LexOperator ==
    /\ InLoop
    /\ peek(Self) \in OperatorChars
    /\ Iteration

LexString ==
    /\ InLoop
    /\ peek(Self) = QUOTE
    /\ Iteration

LexNewline ==
    /\ InLoop
    /\ peek(Self) = NL
    /\ Iteration

LexNumber ==
    /\ InLoop
    /\ peek(Self) \notin {SPACE, QUOTE, NL} \cup OperatorChars
    /\ IsNumeric(peek(Self))
    /\ Iteration

LexIdentifier ==
    /\ InLoop
    /\ peek(Self) \notin {SPACE, QUOTE, NL} \cup OperatorChars
    /\ ~IsNumeric(peek(Self))
    /\ Iteration

\* The loop of lex() ends and lex() returns.
LexReturn ==
    /\ status = Lexing
    /\ is_eof(Self)
    /\ status' = Returned
    /\ UNCHANGED <<input, output, origin, line, start, current, iterations>>

Next ==
    \/ LexSpace
    \/ LexOperator
    \/ LexString
    \/ LexNewline
    \/ LexNumber
    \/ LexIdentifier
    \/ LexReturn

Spec == Init /\ [][Next]_vars

----------------------------------------------------------------------------
(* Vocabulary of the properties.  At the start of an iteration of the loop *)
(* of lex(), start = current is the position of the first character of the *)
(* next lexeme.                                                            *)

AtLexeme == status = Lexing /\ current < Len(input)

FirstChar == input[current + 1]

AtNumber == AtLexeme /\ FirstChar \in {"0", "1", "2", "3", "4", "5", "6", "7", "8", "9"}

AtString == AtLexeme /\ FirstChar = QUOTE

\* The position of the first character of stop after the first character of
\* the lexeme, or the length of the text when there is none.
LexemeEnd(stop) ==
    CHOOSE p \in (current + 1)..Len(input) :
        /\ p = Len(input) \/ input[p + 1] \in stop
        /\ \A k \in (current + 1)..(p - 1) : input[k + 1] \notin stop

NumberLexemeEnd == LexemeEnd({")", NL, SPACE})

\* The text number() captures for the lexeme, when the slice succeeds.
NumberText == Slice(start, NumberLexemeEnd)

\* The captured text is a number: it parses, and it does not end in '.'.
WellFormedNumber ==
    /\ NumberText.ok
    /\ NumberText.text[Len(NumberText.text)] # "."
    /\ NumberValue(NumberText.text).ok

Failed == status \in Panics

Finished == status # Lexing

----------------------------------------------------------------------------
(* C1: when the character just before a number lexeme is '-', the scan     *)
(* removes exactly one token, which is the Minus pushed for that '-', and  *)
(* pushes the negated value in its place; the text -5 gives the single     *)
(* token Integer(-5) and --5 gives Minus, Integer(-5).                     *)

C1_Step ==
    (AtNumber /\ start > 0 /\ input[start] = "-" /\ status' = Lexing) =>
        /\ output # <<>>
        /\ output[Len(output)] = Minus
        /\ origin[Len(origin)] = start - 1
        /\ output' = Append(SubSeq(output, 1, Len(output) - 1),
                            NumberToken(Negate(NumberValue(NumberText.text).val)))

C1_Examples ==
    /\ (input = <<"-", "5">> /\ Finished) =>
           (status = Returned /\ output = <<Integer(I64Of(0 - 5))>>)
    /\ (input = <<"-", "-", "5">> /\ Finished) =>
           (status = Returned /\ output = <<Minus, Integer(I64Of(0 - 5))>>)

\* C1: a number lexeme just after a '-' replaces the Minus of that '-', the
\* last token, by its negated value; -5 gives Integer(-5) alone and --5
\* gives Minus, Integer(-5).
C1_NegativeLiteral == [][C1_Step]_vars /\ []C1_Examples

\* A negative literal has been emitted for a lexeme that follows a '-'.
C1_Witness ==
    /\ status = Returned
    /\ \E i \in 1..Len(output) :
           /\ output[i].type \in {"Integer", "Real"}
           /\ output[i].num.neg
           /\ origin[i] > 0
           /\ input[origin[i]] = "-"

----------------------------------------------------------------------------
(* C2: when the character just before a number lexeme is not '-', or the   *)
(* lexeme starts the text, no token is removed and the value is pushed as  *)
(* it is; the text 3 - 5 is scanned to the end and gives Integer(3),       *)
(* Minus, Integer(5).                                                      *)

C2_Step ==
    (AtNumber /\ WellFormedNumber /\ (start = 0 \/ input[start] # "-")) =>
        /\ status' = Lexing
        /\ output' = Append(output, NumberToken(NumberValue(NumberText.text).val))

C2_Examples ==
    (input = <<"3", SPACE, "-", SPACE, "5">> /\ Finished) =>
        /\ status = Returned
        /\ output = <<Integer(I64Of(3)), Minus, Integer(I64Of(5))>>

\* C2: a well-formed number lexeme that does not follow a '-', the first
\* lexeme of the text included, pushes its value and removes nothing;
\* 3 - 5 gives Integer(3), Minus, Integer(5).
C2_PlainLiteral == [][C2_Step]_vars /\ []C2_Examples

----------------------------------------------------------------------------
(* C3: a text of spaces, tabs, carriage returns and newlines only is       *)
(* scanned to the end with no token, and line ends as 1 + the number of    *)
(* newlines of the text.                                                   *)

Newlines == Cardinality({i \in 1..Len(input) : input[i] = NL})

\* C3: a finished scan of a text of spaces, tabs, carriage returns and
\* newlines has returned with no token and line = 1 + the newlines.
C3_WhitespaceOnly ==
    ((\A i \in 1..Len(input) : input[i] \in {SPACE, TAB, CR, NL}) /\ Finished) =>
        /\ status = Returned
        /\ output = <<>>
        /\ line = 1 + Newlines

----------------------------------------------------------------------------
(* C4: an identifier lexeme is classified by the exact, case-sensitive     *)
(* match of the whole captured text: the seven keyword texts give the      *)
(* keyword tokens, the seven builtin texts give Builtin tokens, and every  *)
(* other text t gives Ident(t).                                            *)

AtIdentifier ==
    /\ AtLexeme
    /\ FirstChar \notin {SPACE, NL, QUOTE, ">", "<", "(", ")", "-", "+", "*", "/", "%"}
    /\ ~AtNumber

IdentifierLexemeEnd == LexemeEnd({"(", ")", NL, SPACE, QUOTE})

\* The text identifier() captures for the lexeme, when the slice succeeds.
IdentifierText == Slice(start, IdentifierLexemeEnd)

ReservedWords ==
    { <<<<"d", "e", "f", "u", "n">>, Defun>>,
      <<<<"v", "e", "c">>, Vec>>,
      <<<<"t", "u", "p">>, Tup>>,
      <<<<"i", "f">>, If>>,
      <<<<"e", "l", "s", "e">>, Else>>,
      <<<<"w", "h", "i", "l", "e">>, While>>,
      <<<<"l", "e", "t">>, Let>>,
      <<<<"p", "u", "t">>, Builtin("Put")>>,
      <<<<"g", "e", "t">>, Builtin("Get")>>,
      <<<<"t", "y", "p", "e">>, Builtin("Type")>>,
      <<<<"l", "e", "n">>, Builtin("Len")>>,
      <<<<"p", "a", "n", "i", "c">>, Builtin("Panic")>>,
      <<<<"p", "u", "s", "h">>, Builtin("Push")>>,
      <<<<"p", "o", "p">>, Builtin("Pop")>> }

C4_Step ==
    (AtIdentifier /\ IdentifierText.ok) =>
        /\ status' = Lexing
        /\ \E tok \in {output'[Len(output')]} :
               /\ output' = Append(output, tok)
               /\ \A w \in ReservedWords : IdentifierText.text = w[1] => tok = w[2]
               /\ (\A w \in ReservedWords : IdentifierText.text # w[1]) =>
                      tok = Ident(IdentifierText.text)

C4_Examples ==
    /\ (input = <<"D", "e", "f", "u", "n">> /\ Finished) => output = <<Ident(<<"D", "e", "f", "u", "n">>)>>
    /\ (input = <<"d", "e", "f", "u", "n", "x">> /\ Finished) => output = <<Ident(<<"d", "e", "f", "u", "n", "x">>)>>
    /\ (input = <<"f", "o", "o">> /\ Finished) => output = <<Ident(<<"f", "o", "o">>)>>
    /\ (input = <<"d", "e", "f", "u", "n">> /\ Finished) => output = <<Defun>>
    /\ (input = <<"p", "u", "t">> /\ Finished) => output = <<Builtin("Put")>>

\* C4: the token of an identifier lexeme is the keyword or builtin whose
\* text is exactly the captured text, and Ident of the text otherwise.
C4_Classification == [][C4_Step]_vars /\ []C4_Examples

\* A keyword or a builtin has been recognised, and an identifier beside it.
C4_Witness ==
    /\ status = Returned
    /\ \E i \in 1..Len(output) : output[i].type \in {"Defun", "Let", "Builtin"}

----------------------------------------------------------------------------
(* C5: a string lexeme whose opening quote has a later '"' gives exactly   *)
(* one Str token, whose payload is the characters strictly between the     *)
(* opening quote and the first later '"', and the cursor is left one       *)
(* position past that closing quote; the text "hello" gives Str(hello).    *)

HasClosingQuote == \E q \in (current + 2)..Len(input) : input[q] = QUOTE

\* The position (from 1) of the first '"' after the opening quote.
ClosingQuote ==
    CHOOSE q \in (current + 2)..Len(input) :
        /\ input[q] = QUOTE
        /\ \A k \in (current + 2)..(q - 1) : input[k] # QUOTE

C5_Step ==
    (AtString /\ HasClosingQuote) =>
        /\ status' = Lexing
        /\ output' = Append(output, Str(SubSeq(input, current + 2, ClosingQuote - 1)))
        /\ current' = ClosingQuote

C5_Examples ==
    (input = <<QUOTE, "h", "e", "l", "l", "o", QUOTE>> /\ Finished) =>
        (status = Returned /\ output = <<Str(<<"h", "e", "l", "l", "o">>)>>)

\* C5: a string lexeme with a closing quote pushes Str of the characters
\* between the quotes and leaves the cursor just past the closing quote.
C5_StringLiteral == [][C5_Step]_vars /\ []C5_Examples

----------------------------------------------------------------------------
(* C6: the scan of a string lexeme ends in the unterminated-string panic   *)
(* exactly when there is no '"' after the opening quote; a string whose    *)
(* closing quote is the last character of the text does not end in it.     *)

C6_Step == AtString => ((status' = UnlimitedString) <=> ~HasClosingQuote)

C6_Examples ==
    (Finished /\ Len(input) = 3 /\ input[1] = QUOTE /\ input[2] \notin {QUOTE}
     /\ input[3] = QUOTE) => status # UnlimitedString

\* C6: a string lexeme ends the scan in the unterminated-string panic
\* exactly when no '"' follows its opening quote.
C6_Unterminated == [][C6_Step]_vars /\ []C6_Examples

\* A string opened after an earlier lexeme was left unterminated.
C6_Witness == status = UnlimitedString /\ start > 1

----------------------------------------------------------------------------
(* C7: a number lexeme whose captured text ends in '.' ends the scan in    *)
(* the malformed-number panic, and no token is pushed for it.              *)

C7_Step ==
    (AtNumber /\ NumberText.ok /\ NumberText.text[Len(NumberText.text)] = ".") =>
        /\ status' = ExpectedDecimal
        /\ output' = output

C7_Examples ==
    (Finished /\ input \in {<<"3", ".">>, <<"1", ".", "5", ".">>, <<"-", "3", ".">>}) =>
        /\ status = ExpectedDecimal
        /\ \A i \in 1..Len(output) : output[i].type \notin {"Integer", "Real"}

\* C7: a number lexeme whose captured text ends in '.' ends the scan in
\* the malformed-number panic and pushes no token.
C7_TrailingDot == [][C7_Step]_vars /\ []C7_Examples

\* A number ending in '.' has been met after other lexemes.
C7_Witness == status = ExpectedDecimal /\ start > 0 /\ input[current] = "."

----------------------------------------------------------------------------
(* C8: when a scan fails on an unterminated string or a malformed number   *)
(* it stops at once: the output is the output of the lexemes before the    *)
(* failing one, the cursor is not moved past the failing lexeme, and no    *)
(* field changes afterwards.                                               *)

LexFailures == {UnlimitedString, ExpectedDecimal, ParseFloatError}

C8_Step ==
    (status = Lexing /\ status' \in LexFailures) =>
        /\ output' = output
        /\ current' = IF AtString THEN Len(input) ELSE NumberLexemeEnd

C8_Halt == Failed => UNCHANGED vars

\* C8: a failing lexeme leaves the output as it was, the cursor at the
\* end of that lexeme, and no field changes after the failure.
C8_FailStop == [][C8_Step]_vars /\ [][C8_Halt]_vars

\* A malformed number after a '-': the Minus of the '-' is still the last
\* token when the scan has failed.
C8_Witness ==
    /\ status \in LexFailures
    /\ output # <<>>
    /\ output[Len(output)] = Minus
    /\ start > 0
    /\ input[start] = "-"

----------------------------------------------------------------------------
(* C9: each of ( ) < > + - * / % at the start of a lexeme pushes exactly   *)
(* one token, of its kind; a space pushes none; the tokens are in the      *)
(* order of their lexemes; the text (+ 1 2) gives LParen, Plus,            *)
(* Integer(1), Integer(2), RParen.                                         *)

C9_Token(c) ==
    CASE c = "(" -> LParen [] c = ")" -> RParen [] c = "<" -> LBracket
      [] c = ">" -> RBracket [] c = "+" -> Plus [] c = "-" -> Minus
      [] c = "*" -> Times [] c = "/" -> Div [] c = "%" -> Modulo

C9_Step ==
    /\ (AtLexeme /\ FirstChar \in {"(", ")", "<", ">", "+", "-", "*", "/", "%"}) =>
           (status' = Lexing /\ output' = Append(output, C9_Token(FirstChar)))
    /\ (AtLexeme /\ FirstChar = SPACE) => (status' = Lexing /\ output' = output)

C9_Order ==
    /\ Len(origin) = Len(output)
    /\ \A i, j \in 1..Len(origin) : i < j => origin[i] < origin[j]

C9_Examples ==
    (input = <<"(", "+", SPACE, "1", SPACE, "2", ")">> /\ Finished) =>
        /\ status = Returned
        /\ output = <<LParen, Plus, Integer(I64Of(1)), Integer(I64Of(2)), RParen>>

\* C9: an operator or bracket character pushes its one token, a space
\* pushes none, the tokens keep the order of their lexemes, and (+ 1 2)
\* gives LParen, Plus, Integer(1), Integer(2), RParen.
C9_Operators == [][C9_Step]_vars /\ [](C9_Order /\ C9_Examples)

\* A scan has returned several tokens, operators among them.
C9_Witness ==
    /\ status = Returned
    /\ Len(output) >= 3
    /\ \E i \in 1..Len(output) : output[i] \in {RBracket, Minus, Modulo, RParen}
    /\ \E i \in 1..Len(output) : output[i].type \in {"Integer", "Ident", "Str"}

----------------------------------------------------------------------------
(* C11: start <= current <= the character count, in every state of the     *)
(* loop of lex() and at every point inside lex_one; current never          *)
(* decreases; an iteration that completes leaves start = current.          *)

\* The fields lx at a point inside the iteration that begins in this state.
C11_Within(lx) ==
    /\ lx.start <= lx.current
    /\ lx.current <= Len(input)
    /\ current <= lx.current

\* The points inside lex_one: after advance, after start += 1 of the string
\* arm, and after the loop of string(), number() or identifier().
C11_Inside ==
    AtLexeme =>
        /\ C11_Within(advance(Self))
        /\ FirstChar = QUOTE =>
               /\ C11_Within([advance(Self) EXCEPT !.start = @ + 1])
               /\ C11_Within(StringLoop([advance(Self) EXCEPT !.start = @ + 1]))
        /\ FirstChar \notin {QUOTE, SPACE, NL} \cup OperatorChars =>
               C11_Within(ScanUntil(advance(Self),
                                    IF IsNumeric(FirstChar) THEN NumberStop
                                    ELSE IdentifierStop))

C11_Bounds == start <= current /\ current <= Len(input)

C11_Step ==
    /\ current' >= current
    /\ status' \notin Panics => start' = current'

\* C11: start <= current <= character count in every state, current never
\* decreases, and every completed iteration of the loop leaves
\* start = current.
C11_Positions == [](C11_Bounds /\ C11_Inside) /\ [][C11_Step]_vars

\* A string lexeme has been scanned, the start moved past its quote and
\* then reset, and the scan goes on.
C11_Witness ==
    /\ status = Lexing
    /\ start = current
    /\ current < Len(input)
    /\ output # <<>>
    /\ output[Len(output)].type = "Str"
    /\ origin[Len(origin)] < start - 1

----------------------------------------------------------------------------
(* C12: the output only grows by appending: across every iteration of the  *)
(* loop the output before is a prefix of the output after.                 *)

IsPrefix(s, t) == Len(s) <= Len(t) /\ SubSeq(t, 1, Len(s)) = s

\* C12: across every step of the loop, the output before the step is a
\* prefix of the output after it: no token is ever removed or replaced.
C12_AppendOnly == [][IsPrefix(output, output')]_vars

\* The step scans a number lexeme that follows a '-' and replaces the Minus
\* of that '-', the last token, by the number; every token before it stays.
C12_Retraction ==
    /\ AtNumber
    /\ start > 0
    /\ input[start] = "-"
    /\ output # <<>>
    /\ output[Len(output)] = Minus
    /\ Len(output') = Len(output)
    /\ IsPrefix(SubSeq(output, 1, Len(output) - 1), output')
    /\ output'[Len(output')].type \in {"Integer", "Real"}

\* C12 as amended: across every step of the loop, the output before the
\* step is a prefix of the output after it, except that a number lexeme
\* just after a '-' replaces the Minus of that '-', the last token, by its
\* own token; no other token is ever removed or replaced.
C12_AppendOrRetract == [][IsPrefix(output, output') \/ C12_Retraction]_vars

\* A Minus has been replaced by a negative number while an earlier token
\* stayed in place.
C12_Witness ==
    /\ Len(output) >= 2
    /\ output[Len(output)].type = "Integer"
    /\ origin[Len(origin)] > 0
    /\ input[origin[Len(origin)]] = "-"
    /\ output[1] = RParen

----------------------------------------------------------------------------
(* C13: positions are character positions: the text captured for a string, *)
(* number or identifier lexeme is the characters at character positions    *)
(* start..current of the source, and capturing it never fails.             *)

\* The fields at the point where the lexeme that begins in this state is
\* captured (lines 141, 151, 178).
C13_CapturePoint ==
    IF FirstChar = QUOTE
    THEN StringLoop([advance(Self) EXCEPT !.start = @ + 1])
    ELSE ScanUntil(advance(Self),
                   IF IsNumeric(FirstChar) THEN NumberStop ELSE IdentifierStop)

\* The lexeme that begins in this state captures a text.
C13_Captures ==
    /\ AtLexeme
    /\ FirstChar \notin {SPACE, NL} \cup OperatorChars
    /\ FirstChar = QUOTE => HasClosingQuote

C13_Step ==
    C13_Captures =>
        /\ status' # NotCharBoundary
        /\ Slice(C13_CapturePoint.start, C13_CapturePoint.current) =
               [ok |-> TRUE,
                text |-> SubSeq(input, C13_CapturePoint.start + 1,
                                C13_CapturePoint.current)]

\* C13: for every source, multi-byte characters included, the text
\* captured for a string, number or identifier lexeme is the characters at
\* character positions start..current (exclusive), and capturing never
\* fails.
C13_CharPositions == [][C13_Step]_vars

----------------------------------------------------------------------------
(* C14: during lex() the cursor is never read past the end: peek and       *)
(* advance are only called with current below the character count, so      *)
(* their panics are unreachable.                                           *)

C14_Stop == IF IsNumeric(FirstChar) THEN NumberStop ELSE IdentifierStop

\* The calls of peek and advance of the iteration that begins in this
\* state: the advance of lex_one, and the peek that ends the loop of the
\* lexeme (every earlier peek and advance of the loop is at a position
\* below that one).
C14_Calls ==
    (status = Lexing /\ ~is_eof(Self)) =>
        /\ ~AdvanceFails(Self)
        /\ FirstChar = QUOTE =>
               (\/ is_eof(StringLoop([advance(Self) EXCEPT !.start = @ + 1]))
                \/ ~PeekFails(StringLoop([advance(Self) EXCEPT !.start = @ + 1])))
        /\ FirstChar \notin {QUOTE, SPACE, NL} \cup OperatorChars =>
               (\/ is_eof(ScanUntil(advance(Self), C14_Stop))
                \/ ~PeekFails(ScanUntil(advance(Self), C14_Stop)))

\* C14: on every source, no call of peek or advance during lex() finds the
\* cursor at or past the character count: neither panic is ever raised.
C14_NoReadPastEnd ==
    status \notin {PeekPastEnd, AdvancePastEnd} /\ C14_Calls

\* A scanning loop has run to the end of the text and stopped there on the
\* test of is_eof, the last character taken by advance.
C14_Witness ==
    /\ status = Lexing
    /\ current = Len(input)
    /\ output # <<>>
    /\ output[Len(output)].type \in {"Ident", "Integer"}
    /\ origin[Len(origin)] + 1 < current

----------------------------------------------------------------------------
(* C15: a number lexeme runs from its first digit up to, not including,    *)
(* the first ')', newline or space, or to the end of the text; every other *)
(* character is taken in; 123( and 5-3 are fatal malformed numbers; the    *)
(* stop character is left for the next lexeme.                             *)

C15_StopChars == {")", NL, SPACE}

C15_Step ==
    AtNumber =>
        /\ current' > current
        /\ \A p \in (current + 1)..current' : input[p] \notin C15_StopChars
        /\ current' = Len(input) \/ input[current' + 1] \in C15_StopChars
        /\ status' = Lexing => start' = current'

C15_Examples ==
    /\ (input = <<"1", "2", "3", "(">> /\ Finished) =>
           (status = ParseFloatError /\ output = <<>> /\ current = 4)
    /\ (input = <<"5", "-", "3">> /\ Finished) =>
           (status = ParseFloatError /\ output = <<>> /\ current = 3)

\* C15: a number lexeme ends just before the first ')', newline or space
\* after its first digit, or at the end of the text, whatever else comes
\* between; 123( and 5-3 fail as malformed numbers with no token; the stop
\* character is the first character of the next lexeme.
C15_NumberExtent == [][C15_Step]_vars /\ []C15_Examples

\* A number lexeme has taken in a '-' or a quote, stopped before a stop
\* character, and failed to parse.
C15_Witness ==
    /\ status = ParseFloatError
    /\ current < Len(input)
    /\ input[current + 1] \in C15_StopChars
    /\ IsAsciiDigit(input[start + 1])
    /\ \E p \in (start + 2)..current : input[p] \in {"-", QUOTE}

----------------------------------------------------------------------------
(* C16: an identifier lexeme runs from its first character up to, not      *)
(* including, the first of ( ) newline space and the double quote, or to   *)
(* the end of the text; the text of its token is non-empty and has none of *)
(* those five characters; a+b and x>y are one Ident each; the stop         *)
(* character is left for the next lexeme.                                  *)

C16_StopChars == {"(", ")", NL, SPACE, QUOTE}

C16_Step ==
    AtIdentifier =>
        /\ current' > current
        /\ \A p \in (current + 1)..current' : input[p] \notin C16_StopChars
        /\ current' = Len(input) \/ input[current' + 1] \in C16_StopChars
        /\ status' = Lexing =>
               /\ start' = current'
               /\ Len(output') = Len(output) + 1

\* The text of every Ident token is non-empty and free of stop characters.
C16_Texts ==
    \A i \in 1..Len(output) :
        output[i].type = "Ident" =>
            /\ output[i].text # <<>>
            /\ \A k \in 1..Len(output[i].text) :
                   output[i].text[k] \notin C16_StopChars

C16_Examples ==
    /\ (input = <<"a", "+", "b">> /\ Finished) =>
           (status = Returned /\ output = <<Ident(<<"a", "+", "b">>)>>)
    /\ (input = <<"x", ">", "y">> /\ Finished) =>
           (status = Returned /\ output = <<Ident(<<"x", ">", "y">>)>>)

\* C16: an identifier lexeme ends just before the first of ( ) newline
\* space and the double quote after its first character, or at the end of
\* the text; the text of every Ident token is non-empty and has none of
\* the five; a+b and x>y are one Ident each; the stop character is the
\* first character of the next lexeme.
C16_IdentifierExtent == [][C16_Step]_vars /\ [](C16_Texts /\ C16_Examples)

----------------------------------------------------------------------------
(* C17: at every lexeme boundary and at successful completion, line is 1   *)
(* plus the number of newlines at positions below current: every newline   *)
(* consumed, between lexemes or inside a string, counts once, and nothing  *)
(* else changes line.                                                      *)

C17_NewlinesBelow(pos) == Cardinality({p \in 1..pos : input[p] = NL})

C17_Step ==
    status' \in {Lexing, Returned} =>
        line' - line = C17_NewlinesBelow(current') - C17_NewlinesBelow(current)

\* C17: whenever the scan is between two lexemes or has returned, line
\* equals 1 + the number of newline characters below current, and a step
\* changes line by the number of newlines it consumes.
C17_LineCount ==
    /\ [](status \in {Lexing, Returned} =>
             line = 1 + C17_NewlinesBelow(current))
    /\ [][C17_Step]_vars

\* A newline between lexemes and a newline inside a string literal have
\* both been consumed.
C17_Witness ==
    /\ status \in {Lexing, Returned}
    /\ line >= 3
    /\ input[1] = NL
    /\ output # <<>>
    /\ output[Len(output)].type = "Str"
    /\ \E k \in 1..Len(output[Len(output)].text) :
           output[Len(output)].text[k] = NL

----------------------------------------------------------------------------
(* C18: the Integer token of an integer literal that fits a signed 64-bit  *)
(* integer carries exactly the value of the literal, negated after a '-',  *)
(* for every magnitude up to the 64-bit limits, those above 2^53 included. *)

\* The characters of the number lexeme that begins in this state.
C18_Lexeme == SubSeq(input, current + 1, NumberLexemeEnd)

C18_Magnitude == StripLeadingZeros(DigitVals(C18_Lexeme))

\* The lexeme is an integer literal that fits an i64.
C18_Literal ==
    /\ AtNumber
    /\ AllAsciiDigits(C18_Lexeme)
    /\ ~NatLess(I64MaxDigits, C18_Magnitude)

C18_Step ==
    (C18_Literal /\ status' = Lexing) =>
        /\ output' # <<>>
        /\ output'[Len(output')] =
               Integer(I64(start > 0 /\ input[start] = "-", C18_Magnitude))

\* C18: every integer literal that fits an i64 is emitted as the Integer
\* token of exactly its value, negated when a '-' comes just before it,
\* values above 2^53 included.
C18_ExactInteger == [][C18_Step]_vars

----------------------------------------------------------------------------
(* C19: every call of lex_one moves current forward by at least 1, so      *)
(* lex() on a text of n characters ends, returning or panicking, within n  *)
(* iterations of its loop; it returns exactly when current has reached n.  *)

\* An iteration of the loop moves the cursor forward; lex() returns from
\* the states with current = n and from no other.
C19_Step ==
    /\ iterations' = iterations + 1 => current' >= current + 1
    /\ status' = Returned <=> (status = Lexing /\ current = Len(input))

\* As many characters have been passed as iterations begun, and the scan
\* has returned only at the end.
C19_Bound ==
    /\ iterations <= current
    /\ current <= Len(input)
    /\ status = Returned => current = Len(input)

\* C19: each iteration of the loop of lex() advances current by at least
\* 1, so the iterations number at most the characters of the text, and
\* lex() returns exactly when current equals the character count.
C19_Termination == [][C19_Step]_vars /\ []C19_Bound

\* lex() has returned after several iterations, fewer than the characters
\* of the text.
C19_Witness ==
    /\ status = Returned
    /\ iterations >= 2
    /\ iterations < Len(input)

----------------------------------------------------------------------------
(* C20: whenever number() removes a token, the output is non-empty and the *)
(* token removed is the Minus pushed for the '-' at position start - 1 by  *)
(* the lexeme just before; the retraction never removes a token of another *)
(* kind and never acts on an empty output.                                 *)

\* The step runs the retraction of number(): a number lexeme after a '-' is
\* emitted.
C20_Retracts ==
    /\ AtNumber
    /\ start > 0
    /\ input[start] = "-"
    /\ status' = Lexing

C20_Step ==
    /\ C20_Retracts =>
           /\ output # <<>>
           /\ output[Len(output)] = Minus
           /\ origin[Len(origin)] = start - 1
           /\ Len(output') = Len(output)
           /\ SubSeq(output', 1, Len(output) - 1) =
                  SubSeq(output, 1, Len(output) - 1)
           /\ output'[Len(output')].type \in {"Integer", "Real"}
    /\ ~IsPrefix(output, output') => C20_Retracts

\* C20: every retraction of number() finds a non-empty output whose last
\* token is the Minus of the '-' at start - 1, pushed by the lexeme just
\* before, and removes that token alone; no step removes a token
\* otherwise.
C20_RetractsOnlyMinus == [][C20_Step]_vars

\* Of two '-' in a row before a number, the second has been retracted and
\* the first is still in the output.
C20_Witness ==
    /\ Len(output) >= 2
    /\ output[Len(output)].type = "Integer"
    /\ output[Len(output)].num.neg
    /\ output[Len(output) - 1] = Minus
    /\ origin[Len(origin)] = origin[Len(origin) - 1] + 2

====
